---- MODULE Spec2Model ----
(***************************************************************************)
(* FastEmbed HTTP service (docker/embedding-service/server.py).            *)
(*                                                                         *)
(* A Flask application with three routes (/health, /embed, /info) and a    *)
(* process-wide, lazily constructed embedder handle `_model`.  Request     *)
(* handlers run on server threads; get_model() reads and writes `_model`   *)
(* without synchronisation, so its check, the construction, the assignment *)
(* and the final read are separate steps of the thread that runs it.       *)
(***************************************************************************)
EXTENDS Integers, Sequences, FiniteSets, TLC

(* ------------------------------ bounds -------------------------------- *)
\* number of server threads that handle requests
NumThreads == 2
\* cap on the number of TextEmbedding(...) constructions started
MaxConstructions == 3
\* cap on the number of model.embed(...) invocations
MaxEmbedCalls == 3
\* length of the vectors the configured embedder produces
EmbeddingWidth == 2

(* --------------------------- JSON / Python ---------------------------- *)
\* A parsed JSON value, as Python sees it after request.get_json().
\* Strings are sequences of characters so that `in` on a str is a real
\* substring test.
JNull == [type |-> "null", val |-> 0]
JNum(n) == [type |-> "number", val |-> n]
JBool(b) == [type |-> "bool", val |-> b]
JStr(s) == [type |-> "string", val |-> s]
JArr(s) == [type |-> "array", val |-> s]
JObj(f) == [type |-> "object", val |-> f]
\* a request that carries no body, or bytes that are not JSON
NoBody == [type |-> "unparseable", val |-> 0]

\* the str "text" and the str "texts"
TextKey == <<"t", "e", "x", "t">>
TextsKey == <<"t", "e", "x", "t", "s">>

\* Python truthiness: `not v`
Falsy(v) ==
  CASE v.type = "null" -> TRUE
    [] v.type = "number" -> v.val = 0
    [] v.type = "bool" -> ~v.val
    [] v.type = "string" -> v.val = <<>>
    [] v.type = "array" -> v.val = <<>>
    [] v.type = "object" -> DOMAIN v.val = {}

\* needle occurs in hay as a contiguous run (str.__contains__)
IsSubstring(needle, hay) ==
  \E i \in 0..(Len(hay) - Len(needle)) :
    \A j \in 1..Len(needle) : hay[i + j] = needle[j]

\* `key in v` raises TypeError for values that are not containers
InRaises(v) == v.type \in {"null", "number", "bool"}

\* `key in v`, key a str given both as characters and as a field name
In(chars, name, v) ==
  CASE v.type = "object" -> name \in DOMAIN v.val
    [] v.type = "string" -> IsSubstring(chars, v.val)
    [] v.type = "array" -> \E i \in 1..Len(v.val) : v.val[i] = JStr(chars)
    [] OTHER -> FALSE

\* `v[key]` with a str key raises TypeError unless v is a dict
GetItemRaises(v) == v.type # "object"

(* ------------------------------ state --------------------------------- *)
VARIABLES
  entry,          \* how the module is run: "__main__" or imported by a server
  _model,         \* the global embedder handle: None or an embedder instance
  constructions,  \* probe: TextEmbedding(...) constructions started
  embedCalls,     \* probe: model.embed(...) invocations
  pc,             \* position of the main thread and of each server thread
  data,           \* embed(): local `data`
  texts,          \* embed(): local `texts`
  model,          \* embed(): local `model`
  touched,        \* probe: the running request changed handle or counters
  resp            \* the response each server thread sent last

vars == <<entry, _model, constructions, embedCalls, pc, data, texts, model,
          touched, resp>>

\* `_model = None`
None == 0
\* the thread that runs the module's `if __name__ == "__main__":` block
MainThread == 0
Threads == 1..NumThreads
Procs == {MainThread} \cup Threads

MODEL_NAME == "sentence-transformers/all-MiniLM-L6-v2"

\* what a probe on the embedder observes
Probe == <<_model, constructions, embedCalls>>

\* mutant: the server accepts connections before the pre-load is over
Serving_mut == TRUE

\* the server accepts connections: app.run() was reached, or a WSGI server
\* imported the module
Serving == entry = "wsgi" \/ pc[MainThread] = "app_run"

NoResp == [op |-> "none"]
NoData == JNull

\* an exception object, and `str(e)`
Exception(cls, msg) == [cls |-> cls, msg |-> msg]
NoException == Exception("none", "")
str(e) == e.msg

\* the view function returned jsonify(payload) with a status; `exc` is the
\* exception it caught on the way, if any
Response(op, body, code, payload, exc, chg) ==
  [op |-> op, data |-> body, code |-> code, json |-> payload,
   raised |-> exc, escaped |-> FALSE, touched |-> chg]

\* an exception left the view function; Flask answers for it with its own
\* HTML error page
Escaped(op, body, code, exc, chg) ==
  [op |-> op, data |-> body, code |-> code, json |-> [html |-> exc.cls],
   raised |-> exc, escaped |-> TRUE, touched |-> chg]

Init ==
  /\ entry \in {"__main__", "wsgi"}
  /\ _model = None
  /\ constructions = 0
  /\ embedCalls = 0
  /\ pc = [p \in Procs |->
             IF p = MainThread
               THEN (IF entry = "__main__" THEN "get_model_check" ELSE "imported")
               ELSE "idle"]
  /\ data = [p \in Procs |-> NoData]
  /\ texts = [p \in Procs |-> NoData]
  /\ model = [p \in Procs |-> None]
  /\ touched = [p \in Procs |-> FALSE]
  /\ resp = [t \in Threads |-> NoResp]

\* mutant: the health check loads the model, as if it called get_model()
health_mut(t) ==
  /\ entry = "wsgi" \/ pc[MainThread] = "app_run"
  /\ pc[t] = "idle"
  /\ IF _model = None
       THEN /\ constructions < MaxConstructions
            /\ constructions' = constructions + 1
            /\ _model' = t + 1
       ELSE UNCHANGED <<_model, constructions>>
  /\ UNCHANGED <<entry, embedCalls, pc, data, texts, model, touched>>
  /\ resp' = [resp EXCEPT ![t] =
       [op |-> "health", data |-> NoBody, code |-> 200,
        json |-> [status |-> "ok"], raised |-> NoException,
        escaped |-> FALSE, touched |-> Probe' # Probe]]

(* ------------------------------ /health ------------------------------- *)
health(t) ==
  /\ Serving
  /\ pc[t] = "idle"
  /\ UNCHANGED <<entry, _model, constructions, embedCalls, pc, data, texts,
                 model, touched>>
  /\ resp' = [resp EXCEPT ![t] =
       Response("health", NoBody, 200, [status |-> "ok"], NoException,
                Probe' # Probe)]

(* ------------------------------- /info -------------------------------- *)
info(t) ==
  /\ Serving
  /\ pc[t] = "idle"
  /\ UNCHANGED <<entry, _model, constructions, embedCalls, pc, data, texts,
                 model, touched>>
  /\ resp' = [resp EXCEPT ![t] =
       Response("info", NoBody, 200,
                [model |-> MODEL_NAME, dimensions |-> 384, max_tokens |-> 256],
                NoException, Probe' # Probe)]

(* ------------------------------- /embed ------------------------------- *)
\* request.get_json(): the parsed body.  For a missing or non-JSON body
\* Flask either returns None or raises an HTTP error (BadRequest or
\* UnsupportedMediaType), depending on the Content-Type header and on the
\* Flask version; both outcomes are possible.
get_json(raw) ==
  IF raw.type = "unparseable"
    THEN {[raises |-> TRUE, value |-> JNull], [raises |-> FALSE, value |-> JNull]}
    ELSE {[raises |-> FALSE, value |-> raw]}

\* the three ways the code before the try block ends
Reply(code, payload) ==
  [kind |-> "reply", code |-> code, json |-> payload, exc |-> NoException,
   texts |-> NoData]
Raise(exc) ==
  [kind |-> "raise", code |-> 500, json |-> [html |-> exc.cls], exc |-> exc,
   texts |-> NoData]
Proceed(batch) ==
  [kind |-> "proceed", code |-> 0, json |-> [html |-> ""], exc |-> NoException,
   texts |-> batch]

TypeError == Exception("TypeError", "argument is not iterable or subscriptable")
BadRequest == Exception("BadRequest", "Failed to decode JSON object")

\* mutant: no short cut for the empty batch
embed_batch_mut(batch) == Proceed(batch)

\* the empty-batch short cut, then the try block
embed_batch(batch) ==
  IF Falsy(batch)
    THEN Reply(200, [embeddings |-> <<>>, dimensions |-> 384])
    ELSE Proceed(batch)

\* the field dispatch: `text` is looked up before `texts`
embed_dispatch(d) ==
  IF InRaises(d) THEN Raise(TypeError)
  ELSE IF In(TextKey, "text", d)
    THEN (IF GetItemRaises(d) THEN Raise(TypeError)
          ELSE embed_batch(JArr(<<d.val["text"]>>)))
  ELSE IF In(TextsKey, "texts", d)
    THEN (IF GetItemRaises(d) THEN Raise(TypeError)
          ELSE embed_batch(d.val["texts"]))
  ELSE Reply(400, [error |-> "Provide 'text' or 'texts' field"])

\* the body check
embed_validate(d) ==
  IF Falsy(d)
    THEN Reply(400, [error |-> "No JSON body provided"])
    ELSE embed_dispatch(d)

\* the thread is back in the server loop with its locals gone
Finish(t, r) ==
  /\ pc' = [pc EXCEPT ![t] = "idle"]
  /\ data' = [data EXCEPT ![t] = NoData]
  /\ texts' = [texts EXCEPT ![t] = NoData]
  /\ model' = [model EXCEPT ![t] = None]
  /\ touched' = [touched EXCEPT ![t] = FALSE]
  /\ resp' = [resp EXCEPT ![t] = r]

\* embed() up to the try block: parse, validate, pick the batch
embed(t, raw) ==
  /\ Serving
  /\ pc[t] = "idle"
  /\ UNCHANGED <<entry, _model, constructions, embedCalls>>
  /\ \E got \in get_json(raw) :
       IF got.raises
         THEN Finish(t, Escaped("embed", raw, 400, BadRequest, Probe' # Probe))
         ELSE LET v == embed_validate(got.value) IN
           CASE v.kind = "reply" ->
                  Finish(t, Response("embed", raw, v.code, v.json, NoException,
                                     Probe' # Probe))
             [] v.kind = "raise" ->
                  Finish(t, Escaped("embed", raw, v.code, v.exc, Probe' # Probe))
             [] v.kind = "proceed" ->
                  /\ pc' = [pc EXCEPT ![t] = "get_model_check"]
                  /\ data' = [data EXCEPT ![t] = raw]
                  /\ texts' = [texts EXCEPT ![t] = v.texts]
                  /\ touched' = [touched EXCEPT ![t] = Probe' # Probe]
                  /\ resp' = [resp EXCEPT ![t] = NoResp]
                  /\ UNCHANGED model

(* ------------------------------ get_model ----------------------------- *)
\* what TextEmbedding(...) can raise
LoadErrors == {Exception("ModelLoadError", "model could not be loaded")}
\* what model.embed(...) can raise
InferenceErrors == {Exception("InferenceError", "inference failed")}

\* the embedder instance that process p constructs
Instance(p) == p + 1

\* `if _model is None:` and, when it is, the start of TextEmbedding(...)
get_model_check(p) ==
  /\ pc[p] = "get_model_check"
  /\ IF _model = None
       THEN /\ constructions < MaxConstructions
            /\ constructions' = constructions + 1
            /\ pc' = [pc EXCEPT ![p] = "construct"]
       ELSE /\ pc' = [pc EXCEPT ![p] = "get_model_return"]
            /\ UNCHANGED constructions
  /\ UNCHANGED <<entry, _model, embedCalls, data, texts, model, resp>>
  /\ touched' = [touched EXCEPT ![p] = touched[p] \/ Probe' # Probe]

\* `_model = TextEmbedding(model_name=MODEL_NAME)` completes
get_model_construct(p) ==
  /\ pc[p] = "construct"
  /\ _model' = Instance(p)
  /\ pc' = [pc EXCEPT ![p] = "get_model_return"]
  /\ UNCHANGED <<entry, constructions, embedCalls, data, texts, model, resp>>
  /\ touched' = [touched EXCEPT ![p] = touched[p] \/ Probe' # Probe]

\* mutant: the handle is assigned a half-built embedder before the failure
get_model_construct_fails_mut(p) ==
  /\ pc[p] = "construct"
  /\ _model' = Instance(p)
  /\ UNCHANGED <<entry, constructions, embedCalls>>
  /\ IF p = MainThread
       THEN /\ pc' = [pc EXCEPT ![p] = "exited"]
            /\ UNCHANGED <<data, texts, model, touched, resp>>
       ELSE \E e \in LoadErrors :
              Finish(p, Response("embed", data[p], 500, [error |-> str(e)], e,
                                 touched[p] \/ Probe' # Probe))

\* TextEmbedding(...) raises: in a request the handler's `except` answers
\* 500, at start-up the exception ends the process
get_model_construct_fails(p) ==
  /\ pc[p] = "construct"
  /\ UNCHANGED <<entry, _model, constructions, embedCalls>>
  /\ IF p = MainThread
       THEN /\ pc' = [pc EXCEPT ![p] = "exited"]
            /\ UNCHANGED <<data, texts, model, touched, resp>>
       ELSE \E e \in LoadErrors :
              Finish(p, Response("embed", data[p], 500, [error |-> str(e)], e,
                                 touched[p] \/ Probe' # Probe))

\* `return _model`
get_model_return(p) ==
  /\ pc[p] = "get_model_return"
  /\ IF p = MainThread
       THEN /\ pc' = [pc EXCEPT ![p] = "app_run"]
            /\ UNCHANGED model
       ELSE /\ pc' = [pc EXCEPT ![p] = "embed_call"]
            /\ model' = [model EXCEPT ![p] = _model]
  /\ UNCHANGED <<entry, _model, constructions, embedCalls, data, texts,
                 touched, resp>>

(* ------------------------------ embedder ------------------------------ *)
\* fastembed takes a str as one document and an iterable as the documents
Documents(batch) ==
  IF batch.type = "string" THEN <<batch>> ELSE batch.val

\* the embedder can embed the batch: every document is a str
Embeddable(batch) ==
  /\ batch.type \in {"string", "array"}
  /\ \A i \in 1..Len(Documents(batch)) : Documents(batch)[i].type = "string"

\* the array the embedder yields for one document: it depends on the input
Vector(doc) ==
  [ndarray |-> [i \in 1..EmbeddingWidth |-> Len(doc.val) * i]]

\* list(model.embed(texts)): one array per document, in input order
model_embed(batch) ==
  [i \in 1..Len(Documents(batch)) |-> Vector(Documents(batch)[i])]

\* numpy's tolist()
tolist(emb) == emb.ndarray

\* mutant: `dimensions` is the constant of the empty-batch answer
embed_payload_mut(embeddings) ==
  [embeddings |-> [i \in 1..Len(embeddings) |-> tolist(embeddings[i])],
   dimensions |-> 384]

\* the success payload
embed_payload(embeddings) ==
  LET embeddings_list == [i \in 1..Len(embeddings) |-> tolist(embeddings[i])] IN
  [embeddings |-> embeddings_list,
   dimensions |-> IF embeddings_list # <<>> THEN Len(embeddings_list[1]) ELSE 384]

\* the try block after get_model(): embed, convert, answer 200
embed_call(t) ==
  /\ pc[t] = "embed_call"
  /\ model[t] # None
  /\ Embeddable(texts[t])
  /\ embedCalls < MaxEmbedCalls
  /\ embedCalls' = embedCalls + 1
  /\ UNCHANGED <<entry, _model, constructions>>
  /\ Finish(t, Response("embed", data[t], 200,
                        embed_payload(model_embed(texts[t])), NoException,
                        touched[t] \/ Probe' # Probe))

\* mutant: the 500 answer hides the failure's message
embed_call_fails_mut(t) ==
  /\ pc[t] = "embed_call"
  /\ model[t] # None
  /\ embedCalls < MaxEmbedCalls
  /\ embedCalls' = embedCalls + 1
  /\ UNCHANGED <<entry, _model, constructions>>
  /\ \E e \in InferenceErrors :
       Finish(t, Response("embed", data[t], 500,
                          [error |-> "Internal Server Error"], e,
                          touched[t] \/ Probe' # Probe))

\* model.embed(...) raises: `except Exception` answers 500
embed_call_fails(t) ==
  /\ pc[t] = "embed_call"
  /\ model[t] # None
  /\ embedCalls < MaxEmbedCalls
  /\ embedCalls' = embedCalls + 1
  /\ UNCHANGED <<entry, _model, constructions>>
  /\ \E e \in InferenceErrors :
       Finish(t, Response("embed", data[t], 500, [error |-> str(e)], e,
                          touched[t] \/ Probe' # Probe))

(* ------------------------------ requests ------------------------------ *)
A == JStr(<<"a">>)
BB == JStr(<<"b", "b">>)

\* the request bodies clients send to /embed
Bodies ==
  { NoBody,
    JNum(5),
    JBool(TRUE),
    JStr(TextKey),
    JArr(<<JStr(TextKey)>>),
    JObj(<<>>),
    JObj([foo |-> JNum(1)]),
    JObj([text |-> A]),
    JObj([texts |-> JArr(<<>>)]),
    JObj([texts |-> JArr(<<A, BB>>)]),
    JObj([text |-> JNum(5)]),
    JObj([texts |-> JNum(5)]),
    JObj([text |-> A, texts |-> JArr(<<>>)]) }

\* the bodies sent when several threads serve at once: well-formed, with a
\* batch that is not empty
BatchBodies == {JObj([text |-> A]), JObj([texts |-> JArr(<<A, BB>>)])}

\* the steps of start-up and of the threads T serving the bodies B, with an
\* embedder that does not fail
Serve(T, B) ==
  \/ \E t \in T : health(t)
  \/ \E t \in T : info(t)
  \/ \E t \in T : \E raw \in B : embed(t, raw)
  \/ \E p \in {MainThread} \cup T : get_model_check(p)
  \/ \E p \in {MainThread} \cup T : get_model_construct(p)
  \/ \E p \in {MainThread} \cup T : get_model_return(p)
  \/ \E t \in T : embed_call(t)

\* the embedder's failures
Fail(T) ==
  \/ \E p \in {MainThread} \cup T : get_model_construct_fails(p)
  \/ \E t \in T : embed_call_fails(t)

\* a threaded server: every thread serves, requests overlap
Next == Serve(Threads, BatchBodies) \/ Fail(Threads)
Spec == Init /\ [][Next]_vars

\* the same server with an embedder that never fails
NextReliable == Serve(Threads, BatchBodies)
SpecReliable == Init /\ [][NextReliable]_vars

\* a server that handles one request at a time, for every request body
NextSeq == Serve({1}, Bodies) \/ Fail({1})
SpecSeq == Init /\ [][NextSeq]_vars

(* ------------------------------ claims -------------------------------- *)

\* C1: with any number of overlapping /embed requests and an embedder that
\* does not fail, at most one TextEmbedding construction is ever started.
C1_AtMostOneConstruction == constructions <= 1

\* C2: once `_model` holds an embedder it never becomes None again and is
\* never replaced by another instance.
C2_PresentIsTerminal == [][_model # None => _model' = _model]_vars

\* C3: a request whose body is {"texts": []} is answered 200 with
\* {"embeddings": [], "dimensions": 384}, and handling it changes neither
\* the handle nor the construction count nor the embed-call count.
EmptyBatchBody == JObj([texts |-> JArr(<<>>)])
C3_EmptyBatchShortCut ==
  \A t \in Threads :
    (resp[t].op = "embed" /\ resp[t].data = EmptyBatchBody) =>
      /\ resp[t].code = 200
      /\ resp[t].json = [embeddings |-> <<>>, dimensions |-> 384]
      /\ ~resp[t].escaped
      /\ resp[t].raised = NoException
      /\ ~resp[t].touched
\* an empty batch was answered while the embedder was present
C3_Witness ==
  \E t \in Threads :
    /\ resp[t].op = "embed"
    /\ resp[t].data = EmptyBatchBody
    /\ _model # None
    /\ embedCalls > 0

\* C4: a request in which the construction or the embed call failed is
\* answered 500 with {error: <the failure's message>} and nothing else; it
\* ends there, and the server goes on answering /health and /embed.
EmbedderFailed(r) ==
  r.op = "embed" /\ r.raised \in LoadErrors \cup InferenceErrors
C4_FailureIs500 ==
  \A t \in Threads :
    EmbedderFailed(resp[t]) =>
      /\ resp[t].code = 500
      /\ ~resp[t].escaped
      /\ resp[t].json = [error |-> str(resp[t].raised)]
      /\ pc[t] = "idle"
      /\ Serving
      /\ ENABLED health(t)
      /\ \A raw \in Bodies : ENABLED embed(t, raw)
\* an embed call failed on a present handle
C4_Witness ==
  \E t \in Threads :
    /\ resp[t].op = "embed"
    /\ resp[t].raised \in InferenceErrors
    /\ _model # None

\* C5: whatever the body, the embed handler returns a JSON answer with
\* status 200, 400 or 500, with an `error` field unless the status is 200;
\* no exception leaves the handler.
C5_AllFailuresCaught ==
  \A t \in Threads :
    resp[t].op = "embed" =>
      /\ ~resp[t].escaped
      /\ resp[t].code \in {200, 400, 500}
      /\ (resp[t].code # 200 => "error" \in DOMAIN resp[t].json)

\* C6: a JSON object with neither `text` nor `texts`, the empty object
\* included, is answered 400 with the message that names the two fields,
\* without touching the embedder.
NeitherField(d) ==
  d.type = "object" /\ "text" \notin DOMAIN d.val /\ "texts" \notin DOMAIN d.val
C6_MissingFieldsIs400 ==
  \A t \in Threads :
    (resp[t].op = "embed" /\ NeitherField(resp[t].data)) =>
      /\ resp[t].code = 400
      /\ resp[t].json = [error |-> "Provide 'text' or 'texts' field"]
      /\ ~resp[t].touched

\* C7: a 200 answer to a batch of n >= 1 strings carries n embeddings,
\* embeddings[i] being the embedder's vector for input i, and `dimensions`
\* is the length of embeddings[0].
\* the batch a request asks for: `text` alone, or the list `texts`
RequestedBatch(d) ==
  IF "text" \in DOMAIN d.val THEN <<d.val["text"]>> ELSE d.val["texts"].val
\* the request is a non-empty batch of strings
IsStringBatch(d) ==
  /\ d.type = "object"
  /\ \/ "text" \in DOMAIN d.val /\ d.val["text"].type = "string"
     \/ /\ "text" \notin DOMAIN d.val
        /\ "texts" \in DOMAIN d.val
        /\ d.val["texts"].type = "array"
        /\ d.val["texts"].val # <<>>
        /\ \A i \in 1..Len(d.val["texts"].val) :
             d.val["texts"].val[i].type = "string"
C7_EmbeddingsInOrder ==
  \A t \in Threads :
    (resp[t].op = "embed" /\ resp[t].code = 200 /\ IsStringBatch(resp[t].data)) =>
      LET batch == RequestedBatch(resp[t].data)
          out == resp[t].json
      IN /\ Len(out.embeddings) = Len(batch)
         /\ \A i \in 1..Len(batch) :
              out.embeddings[i] = Vector(batch[i]).ndarray
         /\ out.dimensions = Len(out.embeddings[1])
         /\ out.dimensions = EmbeddingWidth
\* a batch of two different strings was embedded
C7_Witness ==
  \E t \in Threads :
    /\ resp[t].op = "embed"
    /\ resp[t].code = 200
    /\ resp[t].data = JObj([texts |-> JArr(<<A, BB>>)])
    /\ Len(resp[t].json.embeddings) = 2
    /\ resp[t].json.embeddings[1] # resp[t].json.embeddings[2]

\* C8: /health is answered 200 {"status": "ok"} in every state of a serving
\* process and changes neither the handle nor the probes.
C8_HealthAlwaysOk ==
  \A t \in Threads :
    /\ (Serving /\ pc[t] = "idle") => ENABLED health(t)
    /\ resp[t].op = "health" =>
         /\ resp[t].code = 200
         /\ resp[t].json = [status |-> "ok"]
         /\ ~resp[t].escaped
         /\ ~resp[t].touched
\* /health was answered while another request is constructing the embedder
\* after an earlier construction failed
C8_Witness ==
  \E t, u \in Threads :
    /\ resp[t].op = "health"
    /\ pc[u] = "construct"
    /\ _model = None
    /\ constructions = 2

\* C9: run as __main__, the process serves no request while `_model` is
\* None: every request uses the instance the pre-load built, no request
\* starts a construction, and a failed pre-load means no request is served.
C9_PreloadBeforeServing ==
  entry = "__main__" =>
    /\ \A t \in Threads :
         (pc[t] # "idle" \/ resp[t] # NoResp) => _model = Instance(MainThread)
    /\ Serving => (_model = Instance(MainThread) /\ constructions = 1)
    /\ \A t \in Threads : pc[t] # "construct"
    /\ \A t \in Threads : pc[t] = "embed_call" => model[t] = Instance(MainThread)
    /\ pc[MainThread] = "exited" =>
         (~Serving /\ \A t \in Threads : pc[t] = "idle" /\ resp[t] = NoResp)
\* a request was embedded by a process started as __main__
C9_Witness ==
  /\ entry = "__main__"
  /\ \E t \in Threads : resp[t].op = "embed" /\ resp[t].code = 200

\* C10: a construction that fails in a request leaves `_model` as it was
\* (None stays None) and the request is answered 500; a get_model() that
\* finds None starts a construction, which on success makes the handle
\* present; an embed call that fails leaves the present handle unchanged.
C10_FailureKeepsHandle ==
  [][\A t \in Threads :
       /\ (pc[t] = "construct" /\ pc'[t] = "idle") =>
            /\ _model' = _model
            /\ resp'[t].code = 500
            /\ resp'[t].raised \in LoadErrors
       /\ (pc[t] = "get_model_check" /\ pc'[t] # pc[t] /\ _model = None) =>
            /\ pc'[t] = "construct"
            /\ constructions' = constructions + 1
       /\ (pc[t] = "construct" /\ pc'[t] = "get_model_return") =>
            _model' = Instance(t)
       /\ (pc[t] = "embed_call" /\ pc'[t] = "idle") =>
            /\ _model # None
            /\ _model' = _model
     ]_vars
\* thread 1 alone served: its first construction failed, a later request
\* of it constructed the embedder and was answered 200
C10_Witness ==
  /\ entry = "wsgi"
  /\ resp[1].op = "embed"
  /\ resp[1].code = 200
  /\ _model = Instance(1)
  /\ constructions = 2
  /\ \A t \in Threads \ {1} : pc[t] = "idle" /\ resp[t] = NoResp
====
